---- MODULE Spec2Model ----
(***************************************************************************)
(* A model of src/src/lib.rs: RawVec<T> (allocation handle), MyVec<T>      *)
(* (growable array), RawValIter<T> (two-pointer cursor), Drain and         *)
(* IntoIter.                                                               *)
(*                                                                         *)
(* The element type T is a parameter of the program; the model fixes its   *)
(* size in Init (esize, in bytes).  Element values are identities 1, 2, .. *)
(* handed out in creation order (a drop-counting element type); a          *)
(* zero-size element carries no bits, so every read of one yields Unit.    *)
(*                                                                         *)
(* The heap is modelled by the byte size of the live allocation (asize)    *)
(* and the contents of the element slots at ptr (mem).  A slot i is backed *)
(* by the allocation iff its last byte lies inside it.  Accessing a slot   *)
(* that is not backed is undefined behaviour: a write lands at the address *)
(* but the memory is not owned, so a later read of such a slot yields      *)
(* either the bits written or Garbage; a resize that relocates the block   *)
(* carries over only the bytes the allocator was asked to keep.            *)
(***************************************************************************)
EXTENDS Integers, Sequences, FiniteSets, TLC

\* ---------------------------------------------------------------- bounds
\* width of usize/isize in bits (scaled-down machine word)
WordBits == 5
\* number of element values created in one run (push, insert, index write)
MaxElems == 3

\* ------------------------------------------------------- values and sizes
\* size_of::<T>() of the element types the model instantiates: (), u8, i32
ElemSizes == {0, 1, 4}
\* the only value of a zero-size element type
Unit == 0
\* indeterminate bits: uninitialized or unowned memory
Garbage == -1
\* Option::None, and "no argument / no result" in the operation record
NoneV == -2
\* the operation did not return: assertion failure or allocation abort
PanicV == -3

Ids == 1..MaxElems
AllVals == Ids \cup {Unit, Garbage}

UsizeMax == 2^WordBits - 1

\* the limit of the size assertion taken as usize::MAX
IsizeMaxAsUsize == UsizeMax

IsizeMax == 2^(WordBits - 1) - 1

\* number of slots the model keeps contents for (capacity never exceeds it)
SlotLimit == 2 * (MaxElems + 1)
Slots == 0..(SlotLimit - 1)

\* addresses the allocator can return; a first allocation is placed at the
\* lowest one (the addresses are interchangeable), a resize stays or moves
HeapAddrs == {8, 16}
FirstAddr == CHOOSE a \in HeapAddrs : \A b \in HeapAddrs : a <= b

VARIABLES
  esize,      \* size_of::<T>()
  pc,         \* "vec" | "drain" | "into" | "buf_drop" | "done" | "panicked" |
              \* "aborted"
  ptr,        \* RawVec.ptr (of MyVec.buf, or of IntoIter._buf after into_iter)
  cap,        \* RawVec.cap
  len,        \* MyVec.len
  mem,        \* contents of the slots at ptr
  asize,      \* byte size of the live allocation, 0 when there is none
  start,      \* RawValIter.start (address)
  end,        \* RawValIter.end (address)
  nextId,     \* next element identity
  op,         \* the last operation: name, arguments, result
  handed,     \* value -> times it was moved out to the caller
  dropCount,  \* value -> times its destructor ran
  allocLog,   \* calls made to the allocator
  src,        \* contents when the iterator was created
  nFront,     \* successful next() calls on the iterator
  nBack,      \* successful next_back() calls on the iterator
  phase,      \* shape of the history: "pushing" (only pushes since new()),
              \* "popping" (pushes, then only pops), "refill" (only pushes that
              \* did not grow since a Drain was dropped), "other"
  oob,        \* some slot outside the live allocation was accessed
  drained     \* the element identities that were in the array at some drain()

vars == <<esize, pc, ptr, cap, len, mem, asize, start, end, nextId, op,
          handed, dropCount, allocLog, src, nFront, nBack, phase, oob, drained>>

vecVars == <<ptr, cap, len, mem, asize>>
iterVars == <<start, end, src, nFront, nBack, drained>>
ownVars == <<handed, dropCount>>

\* ------------------------------------------------------------- RawVec
\* NonNull::dangling(): the alignment of T, never null
Dangling(s) == IF s = 0 THEN 1 ELSE s

RawVecNewCap(s) == IF s = 0 THEN UsizeMax ELSE 0

\* slot i lies wholly inside an allocation of asz bytes
Backed(i, asz) == (i + 1) * esize <= asz

\* realloc(old_ptr, old_layout, new_size): the block is new_size bytes; the
\* bytes kept are the first min(old size, new_size); in place when the
\* address does not change
ReallocMem(m, oldSize, newSize, moved) ==
  LET kept == IF oldSize < newSize THEN oldSize ELSE newSize
  IN  [i \in Slots |-> IF ~moved \/ (i + 1) * esize <= kept THEN m[i] ELSE Garbage]

\* the new_size argument grow passes to alloc::realloc (a size in bytes): the
\* new capacity
ReallocNewSize(new_cap) == new_cap

NoGrow ==
  [fail |-> "none", ptr |-> ptr, cap |-> cap, asize |-> asize, mem |-> mem,
   log |-> allocLog]

\* the capacity grow doubles by one more instead
NewCapPlusOne == cap + 1

\* new_cap of grow: 1, or twice the capacity (usize arithmetic)
NewCap == IF cap = 0 THEN 1 ELSE (cap * 2) % (UsizeMax + 1)

GrowOutcomes ==
  LET new_cap == NewCap
      new_size == new_cap * esize
      failed(kind) == [NoGrow EXCEPT !.fail = kind]
  IN  IF esize = 0 THEN {failed("capacity overflow")}
      ELSE IF new_size > IsizeMax THEN {failed("Allocation too large")}
      ELSE IF cap = 0
        THEN {[fail |-> "none", ptr |-> FirstAddr, cap |-> new_cap,
               asize |-> new_size, mem |-> [i \in Slots |-> Garbage],
               log |-> [allocLog EXCEPT !.alloc = @ + 1]]}
             \cup {[failed("alloc error") EXCEPT !.log.alloc = @ + 1]}
        ELSE {[fail |-> "none", ptr |-> p, cap |-> new_cap,
               asize |-> ReallocNewSize(new_cap),
               mem |-> ReallocMem(mem, asize, ReallocNewSize(new_cap), p # ptr),
               log |-> [allocLog EXCEPT !.realloc = @ + 1]] : p \in HeapAddrs}
             \cup {[failed("alloc error") EXCEPT !.log.realloc = @ + 1]}

\* Drop for RawVec: the log after the drop and the size left allocated
RawVecDrop ==
  IF cap # 0 /\ esize # 0
    THEN [log |-> [allocLog EXCEPT !.dealloc = @ + 1, !.freedSize = cap * esize,
                                   !.liveSize = asize],
          asize |-> 0]
    ELSE [log |-> allocLog, asize |-> asize]

\* ------------------------------------------------------- slot accesses
\* values a read of slot i can yield
ReadOutcomes(m, i, asz) ==
  IF esize = 0 THEN {Unit}
  ELSE IF Backed(i, asz) THEN {m[i]} ELSE {m[i], Garbage}

\* ptr::write(ptr.add(i), v)
WriteSlot(m, i, v) == IF esize = 0 THEN m ELSE [m EXCEPT ![i] = v]

\* some slot in lo..hi is outside the allocation
Touches(lo, hi, asz) == esize # 0 /\ \E i \in lo..hi : ~Backed(i, asz)

\* reads of the slots lo..hi, one outcome per slot
BulkReads(m, lo, hi, asz) ==
  LET unowned == {i \in lo..hi : esize # 0 /\ ~Backed(i, asz)}
  IN  {[i \in lo..hi |-> IF esize = 0 THEN Unit
                          ELSE IF i \in G THEN Garbage ELSE m[i]] :
         G \in SUBSET unowned}

Bump(f, v) == [f EXCEPT ![v] = @ + 1]

\* counts after the values of f (a function from slots) are added
AddAll(cnt, f) ==
  [v \in AllVals |-> cnt[v] + Cardinality({i \in DOMAIN f : f[i] = v})]

\* the slice the array derefs to, as a sequence
Contents == [i \in 1..len |-> IF esize = 0 THEN Unit ELSE mem[i - 1]]

\* ------------------------------------------------------------ operations
\* an operation that returned
Done(name, i, v, r) == [name |-> name, idx |-> i, val |-> v, ret |-> r, msg |-> ""]

\* an operation that did not return: a failed assert! or unwrap() panics with
\* its message, handle_alloc_error aborts
Fail(msg, name, i, v) ==
  /\ pc' = (IF msg = "alloc error" THEN "aborted" ELSE "panicked")
  /\ op' = [name |-> name, idx |-> i, val |-> v, ret |-> PanicV, msg |-> msg]
  /\ UNCHANGED <<esize, ptr, cap, len, mem, asize, start, end, nextId, handed,
                 dropCount, src, nFront, nBack, phase, oob, drained>>

NewVal == IF esize = 0 THEN Unit ELSE nextId

Init ==
  /\ esize \in ElemSizes
  /\ pc = "vec"
  /\ ptr = Dangling(esize)
  /\ cap = RawVecNewCap(esize)
  /\ len = 0
  /\ mem = [i \in Slots |-> Garbage]
  /\ asize = 0
  /\ start = 0
  /\ end = 0
  /\ nextId = 1
  /\ op = Done("new", NoneV, NoneV, NoneV)
  /\ handed = [v \in AllVals |-> 0]
  /\ dropCount = [v \in AllVals |-> 0]
  /\ allocLog = [alloc |-> 0, realloc |-> 0, dealloc |-> 0, freedSize |-> NoneV,
                 liveSize |-> NoneV]
  /\ src = <<>>
  /\ nFront = 0
  /\ nBack = 0
  /\ phase = "pushing"
  /\ oob = FALSE
  /\ drained = {}

\* growth only once the length is past the capacity
NeedsGrowLate == len > cap

\* self.len == self.cap() of push and insert
NeedsGrow == len = cap

Push ==
  /\ pc = "vec"
  /\ nextId <= MaxElems
  /\ LET v == NewVal IN
     \E g \in (IF NeedsGrow THEN GrowOutcomes ELSE {NoGrow}) :
       IF g.fail # "none"
         THEN Fail(g.fail, "push", NoneV, v) /\ allocLog' = g.log
         ELSE /\ ptr' = g.ptr
              /\ cap' = g.cap
              /\ asize' = g.asize
              /\ allocLog' = g.log
              /\ mem' = WriteSlot(g.mem, len, v)
              /\ len' = len + 1
              /\ nextId' = nextId + 1
              /\ oob' = (oob \/ Touches(len, len, g.asize))
              /\ op' = Done("push", NoneV, v, NoneV)
              /\ phase' = (IF phase = "pushing" \/ (phase = "refill" /\ len < cap)
                             THEN phase ELSE "other")
              /\ UNCHANGED <<esize, pc, iterVars, ownVars>>

\* assert!(idx <= self.len) of insert
InsertInBounds(idx) == idx <= len

\* the check of remove with the comparison of insert
RemoveInBoundsLoose(idx) == idx <= len

\* assert!(idx < self.len) of remove
RemoveInBounds(idx) == idx < len

\* the bounds check of indexing the slice from_raw_parts(ptr, len)
SliceInBounds(idx) == idx < len

Pop ==
  /\ pc = "vec"
  /\ IF len = 0
       THEN /\ op' = Done("pop", NoneV, NoneV, NoneV)
            /\ UNCHANGED <<len, handed, oob>>
       ELSE \E r \in ReadOutcomes(mem, len - 1, asize) :
              /\ len' = len - 1
              /\ handed' = Bump(handed, r)
              /\ oob' = (oob \/ Touches(len - 1, len - 1, asize))
              /\ op' = Done("pop", NoneV, NoneV, r)
  /\ phase' = (IF phase \in {"pushing", "popping"} THEN "popping" ELSE "other")
  /\ UNCHANGED <<esize, pc, ptr, cap, mem, asize, nextId, dropCount, allocLog,
                 iterVars>>

Insert(idx) ==
  /\ pc = "vec"
  /\ nextId <= MaxElems
  /\ LET v == NewVal IN
     IF ~InsertInBounds(idx)
       THEN Fail("index out of bounds", "insert", idx, v) /\ UNCHANGED allocLog
       ELSE \E g \in (IF NeedsGrow THEN GrowOutcomes ELSE {NoGrow}) :
         IF g.fail # "none"
           THEN Fail(g.fail, "insert", idx, v) /\ allocLog' = g.log
           ELSE \E r \in BulkReads(g.mem, idx, len - 1, g.asize) :
                /\ ptr' = g.ptr
                /\ cap' = g.cap
                /\ asize' = g.asize
                /\ allocLog' = g.log
                /\ mem' = IF esize = 0 THEN g.mem
                          ELSE [j \in Slots |->
                                  IF j = idx THEN v
                                  ELSE IF j > idx /\ j <= len THEN r[j - 1]
                                  ELSE g.mem[j]]
                /\ len' = len + 1
                /\ nextId' = nextId + 1
                /\ oob' = (oob \/ Touches(idx, len, g.asize))
                /\ op' = Done("insert", idx, v, NoneV)
                /\ phase' = "other"
                /\ UNCHANGED <<esize, pc, iterVars, ownVars>>

Remove(idx) ==
  /\ pc = "vec"
  /\ IF ~RemoveInBounds(idx)
       THEN Fail("index out of bounds", "remove", idx, NoneV) /\ UNCHANGED allocLog
       ELSE \E item \in ReadOutcomes(mem, idx, asize) :
            \E r \in BulkReads(mem, idx + 1, len - 1, asize) :
              /\ mem' = IF esize = 0 THEN mem
                        ELSE [j \in Slots |->
                                IF j >= idx /\ j < len - 1 THEN r[j + 1] ELSE mem[j]]
              /\ len' = len - 1
              /\ handed' = Bump(handed, item)
              /\ oob' = (oob \/ Touches(idx, len - 1, asize))
              /\ op' = Done("remove", idx, NoneV, item)
              /\ phase' = "other"
              /\ UNCHANGED <<esize, pc, ptr, cap, asize, nextId, dropCount,
                             allocLog, iterVars>>

\* v[idx] through Deref: slice indexing over the first len elements
IndexRead(idx) ==
  /\ pc = "vec"
  /\ IF ~SliceInBounds(idx)
       THEN Fail("index out of bounds", "index", idx, NoneV) /\ UNCHANGED allocLog
       ELSE \E r \in ReadOutcomes(mem, idx, asize) :
              /\ oob' = (oob \/ Touches(idx, idx, asize))
              /\ op' = Done("index", idx, NoneV, r)
              /\ UNCHANGED <<esize, pc, vecVars, nextId, ownVars, allocLog,
                             iterVars, phase>>

\* v[idx] = x through DerefMut: the old element is dropped in place
IndexWrite(idx) ==
  /\ pc = "vec"
  /\ nextId <= MaxElems
  /\ LET v == NewVal IN
     IF ~SliceInBounds(idx)
       THEN Fail("index out of bounds", "index_mut", idx, v) /\ UNCHANGED allocLog
       ELSE \E old \in ReadOutcomes(mem, idx, asize) :
              /\ mem' = WriteSlot(mem, idx, v)
              /\ dropCount' = Bump(dropCount, old)
              /\ nextId' = nextId + 1
              /\ oob' = (oob \/ Touches(idx, idx, asize))
              /\ op' = Done("index_mut", idx, v, NoneV)
              /\ phase' = "other"
              /\ UNCHANGED <<esize, pc, ptr, cap, len, asize, handed, allocLog,
                             iterVars>>

\* ---------------------------------------------------------- RawValIter
\* RawValIter::new without the branch for zero-size elements
RawValIterNewByStride(base, n) ==
  [start |-> base, end |-> IF n = 0 THEN base ELSE base + n * esize]

\* RawValIter::new over the n elements at base
RawValIterNew(base, n) ==
  [start |-> base,
   end |-> IF esize = 0 THEN base + n
           ELSE IF n = 0 THEN base
           ELSE base + n * esize]

\* the slot an element address points at
SlotOf(a) == (a - ptr) \div esize

\* RawValIter::next
RawValIterNext ==
  IF start = end
    THEN {[start |-> start, end |-> end, ret |-> NoneV, touched |-> FALSE]}
    ELSE IF esize = 0
      THEN {[start |-> start + 1, end |-> end, ret |-> Unit, touched |-> FALSE]}
      ELSE {[start |-> start + esize, end |-> end, ret |-> r,
             touched |-> ~Backed(SlotOf(start), asize)] :
              r \in ReadOutcomes(mem, SlotOf(start), asize)}

\* next_back that yields the last element but moves start on instead of
\* moving end back
RawValIterNextBackByStart ==
  IF start = end
    THEN {[start |-> start, end |-> end, ret |-> NoneV, touched |-> FALSE]}
    ELSE IF esize = 0
      THEN {[start |-> start + 1, end |-> end, ret |-> Unit, touched |-> FALSE]}
      ELSE {[start |-> start + esize, end |-> end, ret |-> r,
             touched |-> ~Backed(SlotOf(end - esize), asize)] :
              r \in ReadOutcomes(mem, SlotOf(end - esize), asize)}

\* RawValIter::next_back
RawValIterNextBack ==
  IF start = end
    THEN {[start |-> start, end |-> end, ret |-> NoneV, touched |-> FALSE]}
    ELSE IF esize = 0
      THEN {[start |-> start, end |-> end - 1, ret |-> Unit, touched |-> FALSE]}
      ELSE {[start |-> start, end |-> end - esize, ret |-> r,
             touched |-> ~Backed(SlotOf(end - esize), asize)] :
              r \in ReadOutcomes(mem, SlotOf(end - esize), asize)}

\* a loop that ends before its first next()
RemainingNone == [lo |-> 0, hi |-> -1]

\* `for _ in &mut *self {}`: next() until None, every element read is dropped.
\* The slots still in the cursor, first to last.
Remaining ==
  IF esize = 0 THEN [lo |-> 0, hi |-> end - start - 1]
  ELSE [lo |-> SlotOf(start), hi |-> SlotOf(end) - 1]

IntoIter ==
  /\ pc = "vec"
  /\ LET it == RawValIterNew(ptr, len) IN
       /\ start' = it.start
       /\ end' = it.end
  /\ src' = Contents
  /\ nFront' = 0
  /\ nBack' = 0
  /\ pc' = "into"
  /\ op' = Done("into_iter", NoneV, NoneV, NoneV)
  /\ phase' = "other"
  /\ UNCHANGED <<esize, vecVars, nextId, ownVars, allocLog, oob, drained>>

\* drain() that leaves the length as it was
DrainedLenKept == len

\* self.len = 0 of drain
DrainedLen == 0

Drain ==
  /\ pc = "vec"
  /\ LET it == RawValIterNew(ptr, len) IN
       /\ start' = it.start
       /\ end' = it.end
  /\ len' = DrainedLen
  /\ src' = Contents
  /\ nFront' = 0
  /\ nBack' = 0
  /\ pc' = "drain"
  /\ op' = Done("drain", NoneV, NoneV, NoneV)
  /\ phase' = "other"
  /\ drained' = drained \cup {v \in Ids : \E i \in 1..len : Contents[i] = v}
  /\ UNCHANGED <<esize, ptr, cap, mem, asize, nextId, ownVars, allocLog, oob>>

Step(name, outcomes, front) ==
  \E o \in outcomes :
    /\ start' = o.start
    /\ end' = o.end
    /\ op' = Done(name, NoneV, NoneV, o.ret)
    /\ handed' = (IF o.ret = NoneV THEN handed ELSE Bump(handed, o.ret))
    /\ nFront' = (IF front /\ o.ret # NoneV THEN nFront + 1 ELSE nFront)
    /\ nBack' = (IF ~front /\ o.ret # NoneV THEN nBack + 1 ELSE nBack)
    /\ oob' = (oob \/ o.touched)
    /\ UNCHANGED <<esize, pc, vecVars, nextId, dropCount, allocLog, src, phase,
                   drained>>

DrainNext == pc = "drain" /\ Step("next", RawValIterNext, TRUE)

DrainNextBack == pc = "drain" /\ Step("next_back", RawValIterNextBack, FALSE)

IntoIterNext == pc = "into" /\ Step("next", RawValIterNext, TRUE)

IntoIterNextBack == pc = "into" /\ Step("next_back", RawValIterNextBack, FALSE)

\* Drop for Drain: the rest of the cursor is read out and dropped; the
\* borrowed array is left as drain() made it.  The iterator is gone, so its
\* fields and the record of its steps go back to their initial values.
DrainDrop ==
  /\ pc = "drain"
  /\ \E r \in BulkReads(mem, Remaining.lo, Remaining.hi, asize) :
       /\ dropCount' = AddAll(dropCount, r)
       /\ oob' = (oob \/ Touches(Remaining.lo, Remaining.hi, asize))
  /\ start' = 0
  /\ end' = 0
  /\ src' = <<>>
  /\ nFront' = 0
  /\ nBack' = 0
  /\ pc' = "vec"
  /\ op' = Done("drop_drain", NoneV, NoneV, NoneV)
  /\ phase' = "refill"
  /\ UNCHANGED <<esize, vecVars, nextId, handed, allocLog, drained>>

\* Drop for IntoIter: the rest of the cursor is read out and dropped; the
\* field _buf is dropped next
IntoIterDrop ==
  /\ pc = "into"
  /\ \E r \in BulkReads(mem, Remaining.lo, Remaining.hi, asize) :
       /\ dropCount' = AddAll(dropCount, r)
       /\ oob' = (oob \/ Touches(Remaining.lo, Remaining.hi, asize))
  /\ start' = end
  /\ pc' = "buf_drop"
  /\ op' = Done("drop_into_iter", NoneV, NoneV, NoneV)
  /\ UNCHANGED <<esize, vecVars, end, nextId, handed, allocLog, src, nFront,
                 nBack, phase, drained>>

\* Drop for MyVec: pop until None, every element popped is dropped; the
\* field buf is dropped next
MyVecDrop ==
  /\ pc = "vec"
  /\ \E r \in BulkReads(mem, 0, len - 1, asize) :
       /\ dropCount' = AddAll(dropCount, r)
       /\ oob' = (oob \/ Touches(0, len - 1, asize))
  /\ len' = 0
  /\ pc' = "buf_drop"
  /\ op' = Done("drop_vec", NoneV, NoneV, NoneV)
  /\ phase' = "other"
  /\ UNCHANGED <<esize, ptr, cap, mem, asize, nextId, handed, allocLog, iterVars>>

\* the drop of the RawVec field (buf of MyVec, _buf of IntoIter) that follows
\* the owner's own drop: the allocation is released
DropBuf ==
  /\ pc = "buf_drop"
  /\ allocLog' = RawVecDrop.log
  /\ asize' = RawVecDrop.asize
  /\ pc' = "done"
  /\ UNCHANGED <<esize, ptr, cap, len, mem, nextId, op, ownVars, iterVars, phase,
                 oob>>

\* indices tried by insert, remove and indexing: the length itself, the ones
\* next to it, and every index an array of MaxElems elements has
Indices == {i \in 0..(len + 1) : i <= UsizeMax /\ (i <= MaxElems \/ i >= len - 1)}

Next ==
  \/ Push
  \/ Pop
  \/ \E idx \in Indices : Insert(idx)
  \/ \E idx \in Indices : Remove(idx)
  \/ \E idx \in Indices : IndexRead(idx)
  \/ \E idx \in Indices : IndexWrite(idx)
  \/ IntoIter
  \/ Drain
  \/ DrainNext
  \/ DrainNextBack
  \/ DrainDrop
  \/ IntoIterNext
  \/ IntoIterNextBack
  \/ IntoIterDrop
  \/ MyVecDrop
  \/ DropBuf

Spec == Init /\ [][Next]_vars

\* the lengths at which a zero-size array is full or one push short of it
NearFull == {UsizeMax - 1, UsizeMax}

\* new(), or new() and then pushes of a zero-size element up to a length in
\* NearFull: a push of a zero-size element writes nothing and adds 1 to len
InitLong ==
  \/ Init
  \/ /\ esize = 0
     /\ pc = "vec"
     /\ ptr = Dangling(esize)
     /\ cap = RawVecNewCap(esize)
     /\ len \in NearFull
     /\ mem = [i \in Slots |-> Garbage]
     /\ asize = 0
     /\ start = 0
     /\ end = 0
     /\ nextId = 1
     /\ op = Done("push", NoneV, Unit, NoneV)
     /\ handed = [v \in AllVals |-> 0]
     /\ dropCount = [v \in AllVals |-> 0]
     /\ allocLog = [alloc |-> 0, realloc |-> 0, dealloc |-> 0, freedSize |-> NoneV,
                    liveSize |-> NoneV]
     /\ src = <<>>
     /\ nFront = 0
     /\ nBack = 0
     /\ phase = "other"
     /\ oob = FALSE
     /\ drained = {}

\* the array used without iterators: they never call grow() and never change
\* the capacity or the length word
NextGrow ==
  \/ Push
  \/ Pop
  \/ \E idx \in Indices : Insert(idx)
  \/ \E idx \in Indices : Remove(idx)
  \/ \E idx \in Indices : IndexRead(idx)
  \/ \E idx \in Indices : IndexWrite(idx)
  \/ MyVecDrop
  \/ DropBuf

\* the runs of the array from new() and from a long zero-size array
SpecGrow == InitLong /\ [][NextGrow]_vars

\* ------------------------------------------------------------------ claims
\* the element types whose byte size equals their count: realloc is asked for
\* new_cap bytes, which is the right size only for them
ByteSized == esize <= 1

\* the value pushed as the (i+1)-th element of a run that only pushes
PushedAt(i) == IF esize = 0 THEN Unit ELSE i + 1

InsertAt(s, i, v) == SubSeq(s, 1, i) \o <<v>> \o SubSeq(s, i + 1, Len(s))

RemoveAt(s, i) == SubSeq(s, 1, i) \o SubSeq(s, i + 2, Len(s))

\* C1: after n pushes on a new array the length is n and an indexed read at
\* i < n returns the i-th pushed value, across every growth.
C1_PushThenIndex ==
  phase = "pushing" =>
    /\ len = nextId - 1
    /\ (op.name = "index" /\ op.ret # PanicV) => op.ret = PushedAt(op.idx)

\* C1 for the element types of size 0 and 1
C1_PushThenIndex_ByteSized == ByteSized => C1_PushThenIndex

\* C2: n pushes, then pops: each pop returns the last value still present and
\* takes the length down by one; a pop of the empty array returns None and
\* leaves length 0 and the capacity as it was.
C2_PushThenPop ==
  [][(phase' = "popping" /\ op'.name = "pop") =>
       IF len = 0
         THEN op'.ret = NoneV /\ len' = 0 /\ cap' = cap
         ELSE op'.ret = PushedAt(len - 1) /\ len' = len - 1]_vars

C2_PushThenPop_ByteSized ==
  [][ByteSized => ((phase' = "popping" /\ op'.name = "pop") =>
       IF len = 0
         THEN op'.ret = NoneV /\ len' = 0 /\ cap' = cap
         ELSE op'.ret = PushedAt(len - 1) /\ len' = len - 1)]_vars

\* C3: insert(i, v) with i <= n yields length n+1, v at i, the former elements
\* at j >= i at j+1 and those at j < i where they were, also when it grows.
C3_InsertShifts ==
  [][(op'.name = "insert" /\ op'.ret # PanicV) =>
       /\ len' = len + 1
       /\ Contents' = InsertAt(Contents, op'.idx, op'.val)]_vars

C3_InsertShifts_ByteSized ==
  [][(ByteSized /\ op'.name = "insert" /\ op'.ret # PanicV) =>
       /\ len' = len + 1
       /\ Contents' = InsertAt(Contents, op'.idx, op'.val)]_vars

\* C4: remove(i) with i < n returns the element at i, yields length n-1, keeps
\* the elements before i, moves those after i down by one, keeps the capacity.
C4_RemoveShifts ==
  [][(op'.name = "remove" /\ op'.ret # PanicV) =>
       /\ op'.ret = Contents[op'.idx + 1]
       /\ len' = len - 1
       /\ Contents' = RemoveAt(Contents, op'.idx)
       /\ cap' = cap]_vars

C4_RemoveShifts_ByteSized ==
  [][(ByteSized /\ op'.name = "remove" /\ op'.ret # PanicV) =>
       /\ op'.ret = Contents[op'.idx + 1]
       /\ len' = len - 1
       /\ Contents' = RemoveAt(Contents, op'.idx)
       /\ cap' = cap]_vars

\* the operations that take an index
Indexed == {"index", "index_mut", "insert", "remove"}

OutOfRange(name, i) == IF name = "insert" THEN i > len ELSE i >= len

\* everything but the position and the operation record
Untouched ==
  UNCHANGED <<esize, ptr, cap, len, mem, asize, start, end, nextId, handed,
              dropCount, allocLog, src, nFront, nBack, phase, oob, drained>>

\* C5 as stated: an index out of range fails before anything is touched, and
\* insert(n, v) and an index of n-1 do not fail.
C5_IndexFailsOnlyOutOfRange ==
  [][(pc = "vec" /\ op'.name \in Indexed) =>
       /\ OutOfRange(op'.name, op'.idx) => (op'.ret = PanicV /\ Untouched)
       /\ (op'.name = "insert" /\ op'.idx = len) => op'.ret # PanicV
       /\ (op'.name \in {"index", "index_mut"} /\ op'.idx = len - 1) =>
            op'.ret # PanicV]_vars

\* C5 (amended): an index out of range fails with "index out of bounds" before
\* anything is touched; an index in range never fails that check: index,
\* index write and remove then return, and insert fails only in the growth
\* it needs when the array is full.
C5_IndexCheck ==
  [][(pc = "vec" /\ op'.name \in Indexed) =>
       /\ OutOfRange(op'.name, op'.idx) =>
            (op'.ret = PanicV /\ op'.msg = "index out of bounds" /\ Untouched)
       /\ ~OutOfRange(op'.name, op'.idx) =>
            \/ op'.ret # PanicV
            \/ /\ op'.name = "insert"
               /\ len = cap
               /\ op'.msg \in {"alloc error", "Allocation too large",
                               "capacity overflow"}]_vars

\* remove(n) on an array of n >= 1 elements has failed
C5_Witness ==
  /\ pc = "panicked"
  /\ op.name = "remove"
  /\ op.idx = len
  /\ len >= 1

\* C6: on the iterator of into_iter() or drain() over e0..e(n-1) the k-th
\* successful next() returns e(k-1), the k-th successful next_back() returns
\* e(n-k), n calls in all return an element, and None follows only then.
C6_IterOrder ==
  (pc \in {"drain", "into"} /\ op.name \in {"next", "next_back"}) =>
    /\ nFront + nBack <= Len(src)
    /\ (op.name = "next" /\ op.ret # NoneV) => op.ret = src[nFront]
    /\ (op.name = "next_back" /\ op.ret # NoneV) => op.ret = src[Len(src) + 1 - nBack]
    /\ op.ret = NoneV => nFront + nBack = Len(src)

C6_IterOrder_ByteSized == ByteSized => C6_IterOrder

\* C7: drain() sets the length to 0 in the call, before anything is yielded;
\* the length is 0 while the iterator exists and when it is dropped; the
\* array never again yields, shows or destroys an element that was in it at
\* a drain().
C7_DrainEmptiesFirst ==
  [][/\ (pc = "vec" /\ pc' = "drain") =>
          (len' = 0 /\ handed' = handed /\ dropCount' = dropCount)
     /\ pc = "drain" => len' = 0
     /\ pc = "vec" =>
          /\ \A v \in drained : handed'[v] = handed[v] /\ dropCount'[v] = dropCount[v]
          /\ op'.name = "index" => op'.ret \notin drained
     /\ \A i \in 1..len' : Contents'[i] \notin drained']_vars

\* a Drain over two or more elements was dropped after yielding some of them
C7_Witness ==
  /\ pc = "vec"
  /\ op.name = "drop_drain"
  /\ len = 0
  /\ \E v \in drained : handed[v] = 1 /\ dropCount[v] = 0
  /\ \E v \in drained : handed[v] = 0 /\ dropCount[v] = 1

\* the value pushed to slot i of an array refilled after a drain
RefilledAt(i) == IF esize = 0 THEN Unit ELSE nextId - len + i

\* C8: drain(), the steps of the Draining Iterator and its drop leave the
\* capacity and the allocation as they were; after the drop the array is
\* empty, and k <= capacity pushes yield length k, the values in order, and
\* no growth.
C8_DrainKeepsStorage ==
  [][/\ (pc = "drain" \/ pc' = "drain") =>
          (cap' = cap /\ ptr' = ptr /\ asize' = asize /\ allocLog' = allocLog)
     /\ (pc = "drain" /\ pc' = "vec") => len' = 0
     /\ (phase = "refill" /\ op'.name = "push" /\ len < cap) =>
          (len' = len + 1 /\ cap' = cap /\ allocLog' = allocLog)
     /\ (phase' = "refill" /\ op'.name = "index" /\ op'.ret # PanicV) =>
          op'.ret = RefilledAt(op'.idx)]_vars

C8_DrainKeepsStorage_ByteSized ==
  [][ByteSized =>
     /\ (pc = "drain" \/ pc' = "drain") =>
          (cap' = cap /\ ptr' = ptr /\ asize' = asize /\ allocLog' = allocLog)
     /\ (pc = "drain" /\ pc' = "vec") => len' = 0
     /\ (phase = "refill" /\ op'.name = "push" /\ len < cap) =>
          (len' = len + 1 /\ cap' = cap /\ allocLog' = allocLog)
     /\ (phase' = "refill" /\ op'.name = "index" /\ op'.ret # PanicV) =>
          op'.ret = RefilledAt(op'.idx)]_vars

\* the elements of src the iterator has not yielded
Unyielded == SubSeq(src, nFront + 1, Len(src) - nBack)

Occurrences(s, v) == Cardinality({i \in 1..Len(s) : s[i] = v})

\* C9: when an iterator is dropped after yielding k of n elements, the
\* destructor of each of the other n-k runs exactly once and that of no
\* yielded element runs.
C9_DropRunsTheRest ==
  [][(pc \in {"drain", "into"} /\ pc' \in {"vec", "buf_drop"}) =>
       \A v \in AllVals : dropCount'[v] = dropCount[v] + Occurrences(Unyielded, v)]_vars

C9_DropRunsTheRest_ByteSized ==
  [][(ByteSized /\ pc \in {"drain", "into"} /\ pc' \in {"vec", "buf_drop"}) =>
       \A v \in AllVals : dropCount'[v] = dropCount[v] + Occurrences(Unyielded, v)]_vars

NoAllocatorCall ==
  /\ allocLog.alloc = 0
  /\ allocLog.realloc = 0
  /\ allocLog.dealloc = 0
  /\ asize = 0

C11_ReleasedOnce ==
  esize # 0 =>
    /\ allocLog.dealloc <= 1
    /\ allocLog.dealloc = 1 => pc = "done"
    /\ (pc = "into" /\ cap # 0) => asize > 0
    /\ pc = "done" =>
         /\ op.name \in {"drop_vec", "drop_into_iter"}
         /\ allocLog.dealloc = (IF cap # 0 THEN 1 ELSE 0)
         /\ cap # 0 => allocLog.freedSize = allocLog.liveSize

C11_ReleasedOnce_ByteSized == ByteSized => C11_ReleasedOnce

\* C12: for a nonzero-size element type, while the storage is owned either the
\* capacity is 0 or the live allocation is capacity * size_of(element) bytes,
\* after the first allocation and after every resize.
C12_AllocationSized ==
  (esize # 0 /\ pc # "done") => (cap = 0 \/ asize = cap * esize)

C12_AllocationSized_ByteSized == ByteSized => C12_AllocationSized

\* C13: a grow() that resizes an allocation of capacity c > 0 preserves the
\* contents of all c slots, for every element size (seen through the push or
\* insert that called it: push leaves them in place, insert(i, v) moves those
\* at i and after up by one).
C13_GrowPreserves ==
  [][(allocLog'.realloc = allocLog.realloc + 1 /\ op'.ret # PanicV) =>
       /\ op'.name = "push" => \A i \in 0..(cap - 1) : mem'[i] = mem[i]
       /\ op'.name = "insert" =>
            \A i \in 0..(cap - 1) :
              mem'[IF i < op'.idx THEN i ELSE i + 1] = mem[i]]_vars

C13_GrowPreserves_ByteSized ==
  [][(ByteSized /\ allocLog'.realloc = allocLog.realloc + 1 /\ op'.ret # PanicV) =>
       /\ op'.name = "push" => \A i \in 0..(cap - 1) : mem'[i] = mem[i]
       /\ op'.name = "insert" =>
            \A i \in 0..(cap - 1) :
              mem'[IF i < op'.idx THEN i ELSE i + 1] = mem[i]]_vars

\* C14: length <= capacity in every reachable state; the slot a push or an
\* insert has written (the last of the new length) is below the capacity, so
\* neither writes slot `length` of a full array without growing first.
C14_LenWithinCap == len <= cap

\* an insert into a full array has grown it by a resize and filled it again
C14_Witness ==
  /\ op.name = "insert"
  /\ op.ret # PanicV
  /\ allocLog.realloc >= 1
  /\ len = cap

\* what grow() reports when it fails
GrowFailures == {"capacity overflow", "Allocation too large", "alloc error"}

\* grow() ran in the step: it called the allocator or failed
Grew ==
  \/ allocLog'.alloc # allocLog.alloc
  \/ allocLog'.realloc # allocLog.realloc
  \/ op'.msg \in GrowFailures

\* C15: for a nonzero-size element type the capacity is 0 after new() and
\* changes only in a push or insert that found length = capacity, to
\* max(1, 2 * capacity) (so it runs through 0, 1, 2, 4, 8, ...); grow() runs
\* only in such a push or insert; no other operation changes the capacity.
C15_CapacityDoubles ==
  [][esize # 0 =>
       /\ op.name = "new" => cap = 0
       /\ cap' # cap =>
            /\ op'.name \in {"push", "insert"}
            /\ len = cap
            /\ cap' = (IF cap = 0 THEN 1 ELSE 2 * cap)
       /\ Grew => (op'.name \in {"push", "insert"} /\ len = cap)
       /\ op'.name \notin {"push", "insert"} => cap' = cap]_vars

\* a third growth has taken the capacity to 4
C15_Witness ==
  /\ esize # 0
  /\ cap = 4
  /\ allocLog.alloc = 1
  /\ allocLog.realloc = 2

\* the byte size of max(1, 2 * capacity) elements, in unbounded arithmetic
DoubledSize == (IF cap = 0 THEN 1 ELSE 2 * cap) * esize

\* the step is a push or an insert that called grow()
CalledGrow ==
  /\ pc = "vec"
  /\ len = cap
  /\ \/ op'.name = "push"
     \/ op'.name = "insert" /\ op'.idx <= len

\* C16: grow() fails fatally, with no call to the allocator and the capacity
\* and base as they were, whenever the byte size of the new capacity exceeds
\* 2^(w-1) - 1; the capacity never goes down; grow() on a zero-size element
\* type always fails fatally.
C16_GrowFailsFatally ==
  [][/\ (CalledGrow /\ (esize = 0 \/ DoubledSize > 2^(WordBits - 1) - 1)) =>
          /\ op'.ret = PanicV
          /\ pc' = "panicked"
          /\ allocLog' = allocLog
          /\ cap' = cap
          /\ ptr' = ptr
     /\ cap' >= cap]_vars

\* a push on a zero-size array of usize::MAX elements has failed in grow()
C16_Witness ==
  /\ esize = 0
  /\ pc = "panicked"
  /\ op.name = "push"
  /\ len = UsizeMax
  /\ op.msg = "capacity overflow"

\* the third push of a 4-byte element has failed the size assertion
C16_WitnessSized ==
  /\ esize = 4
  /\ pc = "panicked"
  /\ cap = 2
  /\ op.msg = "Allocation too large"

RECURSIVE SumOver(_, _)
SumOver(f, S) ==
  IF S = {} THEN 0
  ELSE LET x == CHOOSE y \in S : TRUE IN f[x] + SumOver(f, S \ {x})

\* destructor runs so far, of any value
Destroyed == SumOver(dropCount, AllVals)

\* elements between start and end
InCursor == (end - start) \div (IF esize = 0 THEN 1 ELSE esize)

\* C17: the drop of a Consuming Iterator reads out and destroys every element
\* still in its cursor while the allocation is as it was, and the allocation
\* is released only afterwards, with the cursor empty; nothing is read or
\* destroyed once the allocation has been released, wherever the iterator was
\* abandoned.
C17_ExhaustThenRelease ==
  [][/\ (pc = "into" /\ pc' = "buf_drop") =>
          /\ Destroyed' = Destroyed + InCursor
          /\ InCursor' = 0
          /\ allocLog' = allocLog
          /\ asize' = asize
     /\ pc = "into" => allocLog'.dealloc = 0
     /\ allocLog'.dealloc # allocLog.dealloc =>
          /\ pc = "buf_drop"
          /\ op.name = "drop_into_iter" => InCursor = 0
          /\ ownVars' = ownVars
          /\ oob' = oob
     /\ allocLog.dealloc # 0 => (ownVars' = ownVars /\ oob' = oob)]_vars

\* a Consuming Iterator over two or more elements of nonzero size was dropped
\* after one next(), and its storage is released
C17_Witness ==
  /\ esize # 0
  /\ pc = "done"
  /\ op.name = "drop_into_iter"
  /\ Len(src) >= 2
  /\ nFront + nBack = 1
  /\ Destroyed = Len(src) - 1
  /\ allocLog.dealloc = 1

\* every value created so far was moved out to the caller or destroyed, once
Conserved ==
  IF esize = 0
    THEN handed[Unit] + dropCount[Unit] = nextId - 1
    ELSE /\ \A v \in Ids : handed[v] + dropCount[v] = (IF v < nextId THEN 1 ELSE 0)
         /\ handed[Garbage] = 0
         /\ dropCount[Garbage] = 0

\* C18: the drop of the array runs the destructor of each of the `length`
\* elements still present exactly once, and of none that was handed to the
\* caller, before the storage is released; once the array is destroyed every
\* value ever pushed or inserted was either transferred out or destroyed,
\* exactly once.
C18_DropConserves ==
  [][/\ (pc = "vec" /\ pc' = "buf_drop") =>
          /\ \A v \in AllVals :
               dropCount'[v] = dropCount[v] + Occurrences(Contents, v)
          /\ handed' = handed
          /\ allocLog' = allocLog
     /\ (pc' = "done" /\ op'.name = "drop_vec") => Conserved']_vars

C18_DropConserves_ByteSized ==
  [][ByteSized =>
     /\ (pc = "vec" /\ pc' = "buf_drop") =>
          /\ \A v \in AllVals :
               dropCount'[v] = dropCount[v] + Occurrences(Contents, v)
          /\ handed' = handed
          /\ allocLog' = allocLog
     /\ (pc' = "done" /\ op'.name = "drop_vec") => Conserved']_vars

\* one element step of a cursor, in address units
OneStep == IF esize = 0 THEN 1 ELSE esize

\* the step is a call of `name` on the live iterator
Called(name) == pc \in {"drain", "into"} /\ pc' = pc /\ op'.name = name

\* C19: for a cursor built over n elements, start <= end and end - start is
\* n minus the number of elements yielded, in element steps (one address unit
\* for a zero-size element); a successful next() moves start up one step and a
\* successful next_back() moves end down one step, each leaving the other
\* end alone; a call with start = end returns exhausted and moves neither.
C19_CursorSteps ==
  [][/\ pc' \in {"drain", "into"} =>
          /\ start' <= end'
          /\ end' - start' = OneStep * (Len(src') - nFront' - nBack')
     /\ Called("next") =>
          IF start = end
            THEN op'.ret = NoneV /\ start' = start /\ end' = end
            ELSE op'.ret # NoneV /\ start' = start + OneStep /\ end' = end
     /\ Called("next_back") =>
          IF start = end
            THEN op'.ret = NoneV /\ start' = start /\ end' = end
            ELSE op'.ret # NoneV /\ start' = start /\ end' = end - OneStep]_vars

\* a cursor over three one-byte elements was stepped from both ends until
\* start met end, and the next call returned exhausted
C19_Witness ==
  /\ esize = 1
  /\ pc \in {"drain", "into"}
  /\ Len(src) = 3
  /\ nFront >= 1
  /\ nBack >= 1
  /\ start = end
  /\ op.name = "next_back"
  /\ op.ret = NoneV

\* C20: for a nonzero-size element type no operation accesses a slot outside
\* the current storage, every slot written or shifted into is below the
\* capacity, and every value read (moved out, destroyed or indexed) is an
\* initialized element that was not moved out or destroyed before.
C20_NoBadAccess ==
  esize # 0 =>
    /\ ~oob
    /\ len <= cap
    /\ op.ret # Garbage
    /\ handed[Garbage] = 0
    /\ dropCount[Garbage] = 0
    /\ \A v \in Ids : handed[v] + dropCount[v] <= 1

C20_NoBadAccess_ByteSized == ByteSized => C20_NoBadAccess
====
